---------------------------- MODULE Spec2Model ----------------------------
(***************************************************************************)
(* A model of bmputil's src/bmp.rs: the Black Magic Probe handle           *)
(* (BlackmagicProbeDevice), the matcher and enumerator                     *)
(* (find_matching_probes), the match result aggregator (pop_all,           *)
(* pop_single, pop_single_silent), the mode-transition requests            *)
(* (enter_dfu_mode, leave_dfu_mode, request_detach, detach_and_enumerate), *)
(* the reconnection waiter (wait_for_probe_reboot) and download().         *)
(*                                                                         *)
(* The USB host (rusb) and the transfer engine (dfu_libusb) are the        *)
(* environment: the list of devices on the bus, and the outcome of every   *)
(* call made to them, are chosen nondeterministically from small sets.     *)
(***************************************************************************)
EXTENDS Integers, Sequences, FiniteSets, TLC

(***************************************************************************)
(* Option<T> and Result<T, E>.                                             *)
(***************************************************************************)
None == << >>
Some(v) == << v >>
IsSome(o) == o # None
Unwrap(o) == o[1]

Ok(v) == [ok |-> TRUE, val |-> v]
Err(e) == [ok |-> FALSE, err |-> e]
Unit == "()"

(***************************************************************************)
(* crate::error::Error as bmp.rs builds it: ErrorKind::X.error() has no    *)
(* source, ErrorKind::X.error_from(e) wraps e, and a rusb::Error converted *)
(* with `?` / .into() keeps its rusb code.                                 *)
(***************************************************************************)
Error(kind) == [kind |-> kind, source |-> None, ctx |-> None]
ErrorFrom(kind, e) == [kind |-> kind, source |-> Some(e), ctx |-> None]
LibUsb(code) == [kind |-> "LibUsb", source |-> Some(code), ctx |-> None]
\* dfu_libusb::Error converted with `?` / .into().
DfuLibusbError(code) == [kind |-> "DfuLibusb", source |-> Some(code), ctx |-> None]
\* Error::with_ctx
WithCtx(e, ctx) == [e EXCEPT !.ctx = Some(ctx)]

(***************************************************************************)
(* BmpVidPid: the identity table.                                          *)
(***************************************************************************)
VID == 7504          \* 0x1d50
PID_RUNTIME == 24600 \* 0x6018
PID_DFU == 24599     \* 0x6017

\* A mutant of mode_from_vid_pid: the product id alone decides.
mode_from_vid_pid_anyvid(vid, pid) ==
    IF pid = PID_RUNTIME THEN Some("Runtime")
    ELSE IF pid = PID_DFU THEN Some("FirmwareUpgrade")
    ELSE None

mode_from_vid_pid(vid, pid) ==
    IF vid = VID
    THEN IF pid = PID_RUNTIME THEN Some("Runtime")
         ELSE IF pid = PID_DFU THEN Some("FirmwareUpgrade")
         ELSE None
    ELSE None

(***************************************************************************)
(* The USB universe.  A device is what libusb reports of it: an identity   *)
(* (one per enumerated rusb::Device), its ids, its serial string, its      *)
(* place on the bus, and how it answers: `fault` names the one call on it  *)
(* that fails, if any.                                                     *)
(*   "open"       every open() fails                                       *)
(*   "open2"      the second open() fails (the first succeeded)            *)
(*   "langsErr"   read_languages() fails                                   *)
(*   "langsEmpty" read_languages() returns an empty list                   *)
(*   "serial"     read_serial_number_string() fails                        *)
(***************************************************************************)
Faults == {"none", "open", "open2", "langsErr", "langsEmpty", "serial"}
LANG_EN_US == 1033   \* 0x0409, the language id a healthy probe reports

Device(id, vid, pid, serial, ports, fault) ==
    [id |-> id, vid |-> vid, pid |-> pid, serial |-> serial,
     bus |-> 1, ports |-> ports, fault |-> fault]

IsProbe(dev) == IsSome(mode_from_vid_pid(dev.vid, dev.pid))

\* rusb::Device::open(), the nth open of this device within one scan.
Open(dev, nth) ==
    IF dev.fault = "open" \/ (dev.fault = "open2" /\ nth >= 2)
    THEN Err(LibUsb("Access"))
    ELSE Ok(dev.id)

\* rusb::DeviceHandle::read_languages().
ReadLanguages(dev) ==
    IF dev.fault = "langsErr" THEN Err(LibUsb("Io"))
    ELSE IF dev.fault = "langsEmpty" THEN Ok(<< >>)
    ELSE Ok(<< LANG_EN_US >>)

\* rusb::DeviceHandle::read_serial_number_string().
ReadSerialNumberString(dev) ==
    IF dev.fault = "serial" THEN Err(LibUsb("Pipe")) ELSE Ok(dev.serial)

RECURSIVE JoinPorts(_)
\* port_numbers().map(to_string).join(".")
JoinPorts(ports) ==
    IF ports = << >> THEN ""
    ELSE IF Len(ports) = 1 THEN ToString(ports[1])
    ELSE ToString(ports[1]) \o "." \o JoinPorts(Tail(ports))

\* format!("{}-{}", dev.bus_number(), port_chain)
PortPath(dev) == ToString(dev.bus) \o "-" \o JoinPorts(dev.ports)

(***************************************************************************)
(* BlackmagicProbeDevice: {device, handle, mode, serial}.  The device and  *)
(* its open handle are one reference here, the device's identity.          *)
(***************************************************************************)
Probe(id, mode) == [device |-> id, mode |-> mode, serial |-> None]

\* BlackmagicProbeDevice::from_usb_device, as the nth open of the device.
from_usb_device(dev, nth) ==
    LET mode == mode_from_vid_pid(dev.vid, dev.pid) IN
    IF mode = None THEN Err(Error("DeviceNotFound"))
    ELSE IF ~Open(dev, nth).ok THEN Err(Open(dev, nth).err)
    ELSE Ok(Probe(dev.id, Unwrap(mode)))

(***************************************************************************)
(* BlackmagicProbeMatcher and BlackmagicProbeMatchResults.  An entry of    *)
(* `errors` carries, besides the error, the candidate it came from (`of`,  *)
(* 0 for an enumeration failure): the code keeps only the error.           *)
(***************************************************************************)
Matcher(index, serial, port) == [index |-> index, serial |-> serial, port |-> port]

EmptyResults == [found |-> << >>, filtered_out |-> << >>, errors |-> << >>]

PushError(results, e, dev) ==
    [results EXCEPT !.errors = Append(@, [error |-> e, of |-> dev.id])]

\* A mutant of the loop body: a candidate that cannot be opened is dropped
\* without a record.
ScanCandidate_drop(matcher, results, index, dev) ==
    LET wantSerial == IsSome(matcher.serial)
        serial_matches == IF wantSerial THEN Some(dev.serial) = matcher.serial ELSE TRUE
        index_matches == IF IsSome(matcher.index) THEN Unwrap(matcher.index) = index ELSE TRUE
        port_matches == IF IsSome(matcher.port) THEN Unwrap(matcher.port) = PortPath(dev) ELSE TRUE
        made == from_usb_device(dev, IF wantSerial THEN 2 ELSE 1)
    IN  IF wantSerial /\ ~Open(dev, 1).ok
        THEN [panic |-> FALSE, results |-> results]
        ELSE IF wantSerial /\ ~ReadLanguages(dev).ok
        THEN [panic |-> FALSE, results |-> PushError(results, ReadLanguages(dev).err, dev)]
        ELSE IF wantSerial /\ ReadLanguages(dev).val = << >>
        THEN [panic |-> TRUE, results |-> results]
        ELSE IF wantSerial /\ ~ReadSerialNumberString(dev).ok
        THEN [panic |-> FALSE, results |-> PushError(results, ReadSerialNumberString(dev).err, dev)]
        ELSE IF index_matches /\ port_matches /\ serial_matches
        THEN IF made.ok
             THEN [panic |-> FALSE, results |-> [results EXCEPT !.found = Append(@, made.val)]]
             ELSE [panic |-> FALSE, results |-> PushError(results, made.err, dev)]
        ELSE [panic |-> FALSE, results |-> [results EXCEPT !.filtered_out = Append(@, dev.id)]]

\* A mutant of the loop body: a candidate is found when any one of the
\* criteria matches.
ScanCandidate_any(matcher, results, index, dev) ==
    LET wantSerial == IsSome(matcher.serial)
        serial_matches == IF wantSerial THEN Some(dev.serial) = matcher.serial ELSE TRUE
        index_matches == IF IsSome(matcher.index) THEN Unwrap(matcher.index) = index ELSE TRUE
        port_matches == IF IsSome(matcher.port) THEN Unwrap(matcher.port) = PortPath(dev) ELSE TRUE
        made == from_usb_device(dev, IF wantSerial THEN 2 ELSE 1)
    IN  IF wantSerial /\ ~Open(dev, 1).ok
        THEN [panic |-> FALSE, results |-> PushError(results, Open(dev, 1).err, dev)]
        ELSE IF wantSerial /\ ~ReadLanguages(dev).ok
        THEN [panic |-> FALSE, results |-> PushError(results, ReadLanguages(dev).err, dev)]
        ELSE IF wantSerial /\ ReadLanguages(dev).val = << >>
        THEN [panic |-> TRUE, results |-> results]
        ELSE IF wantSerial /\ ~ReadSerialNumberString(dev).ok
        THEN [panic |-> FALSE, results |-> PushError(results, ReadSerialNumberString(dev).err, dev)]
        ELSE IF index_matches \/ port_matches \/ serial_matches
        THEN IF made.ok
             THEN [panic |-> FALSE, results |-> [results EXCEPT !.found = Append(@, made.val)]]
             ELSE [panic |-> FALSE, results |-> PushError(results, made.err, dev)]
        ELSE [panic |-> FALSE, results |-> [results EXCEPT !.filtered_out = Append(@, dev.id)]]

(***************************************************************************)
(* One iteration of find_matching_probes' loop, for the candidate `dev` at *)
(* position `index` of the probe-family sequence.  `panic` is the          *)
(* iteration unwinding: l.remove(0) on an empty language list.             *)
(***************************************************************************)
ScanCandidate(matcher, results, index, dev) ==
    LET wantSerial == IsSome(matcher.serial)
        serial_matches == IF wantSerial THEN Some(dev.serial) = matcher.serial ELSE TRUE
        index_matches == IF IsSome(matcher.index) THEN Unwrap(matcher.index) = index ELSE TRUE
        port_matches == IF IsSome(matcher.port) THEN Unwrap(matcher.port) = PortPath(dev) ELSE TRUE
        made == from_usb_device(dev, IF wantSerial THEN 2 ELSE 1)
    IN  IF wantSerial /\ ~Open(dev, 1).ok
        THEN [panic |-> FALSE, results |-> PushError(results, Open(dev, 1).err, dev)]
        ELSE IF wantSerial /\ ~ReadLanguages(dev).ok
        THEN [panic |-> FALSE, results |-> PushError(results, ReadLanguages(dev).err, dev)]
        ELSE IF wantSerial /\ ReadLanguages(dev).val = << >>
        THEN [panic |-> TRUE, results |-> results]
        ELSE IF wantSerial /\ ~ReadSerialNumberString(dev).ok
        THEN [panic |-> FALSE, results |-> PushError(results, ReadSerialNumberString(dev).err, dev)]
        ELSE IF index_matches /\ port_matches /\ serial_matches
        THEN IF made.ok
             THEN [panic |-> FALSE, results |-> [results EXCEPT !.found = Append(@, made.val)]]
             ELSE [panic |-> FALSE, results |-> PushError(results, made.err, dev)]
        ELSE [panic |-> FALSE, results |-> [results EXCEPT !.filtered_out = Append(@, dev.id)]]

\* A mutant of the filter: every device on the bus is a candidate.
Candidates_all(devices) == devices

\* devices.iter().filter(|dev| mode_from_vid_pid(..).is_some())
Candidates(devices) == SelectSeq(devices, IsProbe)


RECURSIVE ScanFrom(_, _, _, _)
\* The loop `for (index, dev) in devices.enumerate()`, from position `index`
\* (counted from 0) on: the results at its end, or at the iteration that
\* unwound.
ScanFrom(matcher, candidates, index, results) ==
    IF index >= Len(candidates) THEN [panic |-> FALSE, results |-> results]
    ELSE LET step == ScanCandidate(matcher, results, index, candidates[index + 1])
         IN  IF step.panic THEN step
             ELSE ScanFrom(matcher, candidates, index + 1, step.results)

\* The outcomes of rusb::Context::new() followed by context.devices().
ContextOutcomes == {"ok", "ctxErr", "listErr"}

\* The early returns of find_matching_probes: a single entry in `errors`.
EnumerationError(ctx) ==
    [error |-> LibUsb(IF ctx = "ctxErr" THEN "Other" ELSE "NoMem"), of |-> 0]

\* find_matching_probes(matcher), over the devices on the bus.
find_matching_probes(ctx, devices, matcher) ==
    IF ctx # "ok"
    THEN [panic |-> FALSE,
          results |-> [EmptyResults EXCEPT !.errors = << EnumerationError(ctx) >>]]
    ELSE ScanFrom(matcher, Candidates(devices), 0, EmptyResults)

(***************************************************************************)
(* The match result aggregator.  Each operator gives the call's result,    *)
(* the results afterwards and the diagnostics it logged (warn! / error!).  *)
(***************************************************************************)
NotFoundDiagnostics(results) ==
    (IF results.filtered_out # << >> THEN << "warn:filtered_out" >> ELSE << >>)
    \o (IF results.errors # << >> THEN << "warn:not_found_errors" >> ELSE << >>)

\* A mutant of pop_single: two or more matches hand out the first one.
pop_single_first(results, operation) ==
    IF results.found = << >>
    THEN [res |-> Err(Error("DeviceNotFound")), results |-> results,
          diag |-> NotFoundDiagnostics(results)]
    ELSE [res |-> Ok(Head(results.found)),
          results |-> [results EXCEPT !.found = Tail(@)],
          diag |-> << >>]

\* pop_single(operation)
pop_single(results, operation) ==
    IF results.found = << >>
    THEN [res |-> Err(Error("DeviceNotFound")), results |-> results,
          diag |-> NotFoundDiagnostics(results)]
    ELSE IF Len(results.found) > 1
    THEN [res |-> Err(Error("TooManyDevices")), results |-> results,
          diag |-> << "error:too_many:" \o operation >>]
    ELSE [res |-> Ok(Head(results.found)),
          results |-> [results EXCEPT !.found = Tail(@)],
          diag |-> IF results.errors # << >> THEN << "warn:found_errors" >> ELSE << >>]

\* A mutant of pop_single_silent: a single match counts as too many.
pop_single_silent_one_too_many(results) ==
    IF Len(results.found) >= 1
    THEN [res |-> Err(Error("TooManyDevices")), results |-> results, diag |-> << >>]
    ELSE [res |-> Err(Error("DeviceNotFound")), results |-> results, diag |-> << >>]

\* A mutant of pop_single_silent: an error recorded by the scan is returned.
pop_single_silent_errors_first(results) ==
    IF results.errors # << >>
    THEN [res |-> Err(results.errors[1].error), results |-> results, diag |-> << >>]
    ELSE IF Len(results.found) > 1
    THEN [res |-> Err(Error("TooManyDevices")), results |-> results, diag |-> << >>]
    ELSE IF results.found = << >>
    THEN [res |-> Err(Error("DeviceNotFound")), results |-> results, diag |-> << >>]
    ELSE [res |-> Ok(Head(results.found)),
          results |-> [results EXCEPT !.found = Tail(@)],
          diag |-> << >>]

\* A mutant of pop_single_silent: the single match is handed out and kept.
pop_single_silent_keeps(results) ==
    IF Len(results.found) > 1
    THEN [res |-> Err(Error("TooManyDevices")), results |-> results, diag |-> << >>]
    ELSE IF results.found = << >>
    THEN [res |-> Err(Error("DeviceNotFound")), results |-> results, diag |-> << >>]
    ELSE [res |-> Ok(Head(results.found)), results |-> results, diag |-> << >>]

\* pop_single_silent()
pop_single_silent(results) ==
    IF Len(results.found) > 1
    THEN [res |-> Err(Error("TooManyDevices")), results |-> results, diag |-> << >>]
    ELSE IF results.found = << >>
    THEN [res |-> Err(Error("DeviceNotFound")), results |-> results, diag |-> << >>]
    ELSE [res |-> Ok(Head(results.found)),
          results |-> [results EXCEPT !.found = Tail(@)],
          diag |-> << >>]

\* A mutant of pop_all: errors recorded by the scan make it fail.
pop_all_errors_fail(results) ==
    IF results.found = << >> \/ results.errors # << >>
    THEN [res |-> Err(Error("DeviceNotFound")), results |-> results,
          diag |-> NotFoundDiagnostics(results)]
    ELSE [res |-> Ok(results.found),
          results |-> [results EXCEPT !.found = << >>],
          diag |-> << >>]

\* pop_all()
pop_all(results) ==
    IF results.found = << >>
    THEN [res |-> Err(Error("DeviceNotFound")), results |-> results,
          diag |-> NotFoundDiagnostics(results)]
    ELSE [res |-> Ok(results.found),
          results |-> [results EXCEPT !.found = << >>],
          diag |-> IF results.errors # << >> THEN << "warn:found_errors" >> ELSE << >>]

(***************************************************************************)
(* The handle's operations.  A call on the USB host is logged as a record  *)
(* {call, value, index, len, ok}: wValue, wIndex (or the interface number  *)
(* of a claim or release), the length of the data buffer, and whether the  *)
(* call succeeded.                                                         *)
(***************************************************************************)
Req(call, value, idx, len, ok) ==
    [call |-> call, value |-> value, index |-> idx, len |-> len, ok |-> ok]

OnBus(devices, id) == \E i \in 1..Len(devices) : devices[i].id = id
DeviceById(devices, id) == devices[CHOOSE i \in 1..Len(devices) : devices[i].id = id]

\* A mutant of serial_number: the cache is never consulted.
serial_number_uncached(handle, devices) ==
    IF ~OnBus(devices, handle.device)
    THEN [res |-> Err(LibUsb("NoDevice")), handle |-> handle,
          reads |-> << "read_languages" >>]
    ELSE LET dev == DeviceById(devices, handle.device)
             languages == ReadLanguages(dev)
             serial == ReadSerialNumberString(dev)
         IN  IF ~languages.ok
             THEN [res |-> Err(languages.err), handle |-> handle,
                   reads |-> << "read_languages" >>]
             ELSE IF languages.val = << >>
             THEN [res |-> Err(Error("DeviceSeemsInvalid")), handle |-> handle,
                   reads |-> << "read_languages" >>]
             ELSE IF ~serial.ok
             THEN [res |-> Err(serial.err), handle |-> handle,
                   reads |-> << "read_languages", "read_serial_number_string" >>]
             ELSE [res |-> Ok(serial.val),
                   handle |-> [handle EXCEPT !.serial = Some(serial.val)],
                   reads |-> << "read_languages", "read_serial_number_string" >>]

\* serial_number(): the result, the handle afterwards (its cache) and the
\* reads made on the device.  A handle whose device has left the bus gets
\* NoDevice from its first read.
serial_number(handle, devices) ==
    IF IsSome(handle.serial)
    THEN [res |-> Ok(Unwrap(handle.serial)), handle |-> handle, reads |-> << >>]
    ELSE IF ~OnBus(devices, handle.device)
    THEN [res |-> Err(LibUsb("NoDevice")), handle |-> handle,
          reads |-> << "read_languages" >>]
    ELSE LET dev == DeviceById(devices, handle.device)
             languages == ReadLanguages(dev)
             serial == ReadSerialNumberString(dev)
         IN  IF ~languages.ok
             THEN [res |-> Err(languages.err), handle |-> handle,
                   reads |-> << "read_languages" >>]
             ELSE IF languages.val = << >>
             THEN [res |-> Err(Error("DeviceSeemsInvalid")), handle |-> handle,
                   reads |-> << "read_languages" >>]
             ELSE IF ~serial.ok
             THEN [res |-> Err(serial.err), handle |-> handle,
                   reads |-> << "read_languages", "read_serial_number_string" >>]
             ELSE [res |-> Ok(serial.val),
                   handle |-> [handle EXCEPT !.serial = Some(serial.val)],
                   reads |-> << "read_languages", "read_serial_number_string" >>]

(***************************************************************************)
(* What libusb holds of the device's descriptors:                          *)
(*   config  "ok": the active configuration; "unconfigured": NotFound,     *)
(*           then configuration 1; "unconfigured_err": NotFound, then no   *)
(*           configuration 1; "err": another error                         *)
(*   iface   the number of the interface of class APPLICATION_SPECIFIC,    *)
(*           subclass DFU (None: there is none)                            *)
(*   extra   the records that follow that interface descriptor: each its   *)
(*           type tag, its length in bytes and, for a functional           *)
(*           descriptor, wDetachTimeOut and whether copy_from_bytes        *)
(*           accepts it                                                    *)
(***************************************************************************)
DFU_FUNCTIONAL_TYPE == 33    \* DfuFunctionalDescriptor::TYPE, 0x21
DFU_FUNCTIONAL_LENGTH == 9   \* DfuFunctionalDescriptor::LENGTH

Extra(type, len, timeout, valid) ==
    [type |-> type, len |-> len, wDetachTimeOut |-> timeout, valid |-> valid]

Descriptors(config, iface, extra) == [config |-> config, iface |-> iface, extra |-> extra]

\* dfu_descriptors(): Ok((interface number, functional descriptor)), an
\* error, or a panic (the expect() of line 283, the slice of line 284).
dfu_descriptors(desc) ==
    LET functional == SelectSeq(desc.extra, LAMBDA d : d.type = DFU_FUNCTIONAL_TYPE)
    IN  IF desc.config = "err"
        THEN [panic |-> FALSE, res |-> Err(LibUsb("Io"))]
        ELSE IF desc.config = "unconfigured_err"
        THEN [panic |-> FALSE,
              res |-> Err(ErrorFrom("DeviceSeemsInvalid", LibUsb("NotFound")))]
        ELSE IF desc.iface = None
        THEN [panic |-> FALSE, res |-> Err(Error("DeviceSeemsInvalid"))]
        ELSE IF functional = << >>
        THEN [panic |-> TRUE, res |-> Err(Error("panic"))]
        ELSE IF functional[1].len < DFU_FUNCTIONAL_LENGTH
        THEN [panic |-> TRUE, res |-> Err(Error("panic"))]
        ELSE IF ~functional[1].valid
        THEN [panic |-> FALSE,
              res |-> Err(ErrorFrom("DeviceSeemsInvalid", "DFU functional descriptor"))]
        ELSE [panic |-> FALSE, res |-> Ok(<< Unwrap(desc.iface), functional[1] >>)]

\* A mutant of the release: NoDevice is an error like any other.
ReleaseResult_strict(rel) ==
    IF rel = "ok" THEN Ok(Unit) ELSE Err(LibUsb(rel))

\* The release at the end of enter_dfu_mode and leave_dfu_mode: NoDevice
\* counts as released, any other error is returned.
ReleaseResult(rel) ==
    IF rel = "ok" \/ rel = "NoDevice" THEN Ok(Unit) ELSE Err(LibUsb(rel))

(***************************************************************************)
(* enter_dfu_mode() and leave_dfu_mode().  `out` names how the USB host    *)
(* answers: out.claim and out.ctl, out.ctl2 are "ok" or "err", out.rel is  *)
(* "ok", "NoDevice" or "Io".  Each gives the result, the calls made and   *)
(* the interfaces left claimed.                                            *)
(***************************************************************************)
\* A mutant of enter_dfu_mode: DETACH is sent with a zero timeout.
enter_dfu_mode_zero_timeout(desc, out) ==
    LET d == dfu_descriptors(desc)
        iface_number == d.res.val[1]
        claim == Req("claim_interface", 0, iface_number, 0, out.claim = "ok")
        detach == Req("DETACH", 0, iface_number, 0, out.ctl = "ok")
        release == Req("release_interface", 0, iface_number, 0, out.rel = "ok")
    IN  IF d.panic \/ ~d.res.ok
        THEN [panic |-> d.panic, res |-> d.res, log |-> << >>, held |-> {}]
        ELSE IF out.claim # "ok"
        THEN [panic |-> FALSE, res |-> Err(LibUsb("Busy")), log |-> << claim >>,
              held |-> {}]
        ELSE IF out.ctl # "ok"
        THEN [panic |-> FALSE, res |-> Err(LibUsb("Pipe")),
              log |-> << claim, detach >>, held |-> {iface_number}]
        ELSE [panic |-> FALSE, res |-> ReleaseResult(out.rel),
              log |-> << claim, detach, release >>,
              held |-> IF ReleaseResult(out.rel).ok THEN {} ELSE {iface_number}]

enter_dfu_mode(desc, out) ==
    LET d == dfu_descriptors(desc)
        iface_number == d.res.val[1]
        timeout_ms == d.res.val[2].wDetachTimeOut
        claim == Req("claim_interface", 0, iface_number, 0, out.claim = "ok")
        detach == Req("DETACH", timeout_ms, iface_number, 0, out.ctl = "ok")
        release == Req("release_interface", 0, iface_number, 0, out.rel = "ok")
    IN  IF d.panic \/ ~d.res.ok
        THEN [panic |-> d.panic, res |-> d.res, log |-> << >>, held |-> {}]
        ELSE IF out.claim # "ok"
        THEN [panic |-> FALSE, res |-> Err(LibUsb("Busy")), log |-> << claim >>,
              held |-> {}]
        ELSE IF out.ctl # "ok"
        THEN [panic |-> FALSE, res |-> Err(LibUsb("Pipe")),
              log |-> << claim, detach >>, held |-> {iface_number}]
        ELSE [panic |-> FALSE, res |-> ReleaseResult(out.rel),
              log |-> << claim, detach, release >>,
              held |-> IF ReleaseResult(out.rel).ok THEN {} ELSE {iface_number}]

\* A mutant of leave_dfu_mode: GETSTATUS is sent whatever became of DNLOAD.
leave_dfu_mode_status_always(desc, out) ==
    LET d == dfu_descriptors(desc)
        iface_number == d.res.val[1]
        claim == Req("claim_interface", 0, iface_number, 0, out.claim = "ok")
        dnload == Req("DNLOAD", 0, 0, 0, out.ctl = "ok")
        getstatus == Req("GETSTATUS", 0, iface_number, 6, out.ctl2 = "ok")
        release == Req("release_interface", 0, iface_number, 0, out.rel = "ok")
    IN  IF d.panic \/ ~d.res.ok
        THEN [panic |-> d.panic, res |-> d.res, log |-> << >>, held |-> {}]
        ELSE IF out.claim # "ok"
        THEN [panic |-> FALSE, res |-> Err(LibUsb("Busy")), log |-> << claim >>,
              held |-> {}]
        ELSE IF out.ctl # "ok" \/ out.ctl2 # "ok"
        THEN [panic |-> FALSE, res |-> Err(LibUsb("Pipe")),
              log |-> << claim, dnload, getstatus >>, held |-> {iface_number}]
        ELSE [panic |-> FALSE, res |-> ReleaseResult(out.rel),
              log |-> << claim, dnload, getstatus, release >>,
              held |-> IF ReleaseResult(out.rel).ok THEN {} ELSE {iface_number}]

leave_dfu_mode(desc, out) ==
    LET d == dfu_descriptors(desc)
        iface_number == d.res.val[1]
        claim == Req("claim_interface", 0, iface_number, 0, out.claim = "ok")
        dnload == Req("DNLOAD", 0, 0, 0, out.ctl = "ok")
        getstatus == Req("GETSTATUS", 0, iface_number, 6, out.ctl2 = "ok")
        release == Req("release_interface", 0, iface_number, 0, out.rel = "ok")
    IN  IF d.panic \/ ~d.res.ok
        THEN [panic |-> d.panic, res |-> d.res, log |-> << >>, held |-> {}]
        ELSE IF out.claim # "ok"
        THEN [panic |-> FALSE, res |-> Err(LibUsb("Busy")), log |-> << claim >>,
              held |-> {}]
        ELSE IF out.ctl # "ok"
        THEN [panic |-> FALSE, res |-> Err(LibUsb("Pipe")),
              log |-> << claim, dnload >>, held |-> {iface_number}]
        ELSE IF out.ctl2 # "ok"
        THEN [panic |-> FALSE, res |-> Err(LibUsb("Pipe")),
              log |-> << claim, dnload, getstatus >>, held |-> {iface_number}]
        ELSE [panic |-> FALSE, res |-> ReleaseResult(out.rel),
              log |-> << claim, dnload, getstatus, release >>,
              held |-> IF ReleaseResult(out.rel).ok THEN {} ELSE {iface_number}]

\* A mutant of request_detach: the two modes are exchanged.
request_detach_swapped(handle, desc, out) ==
    IF handle.mode = "Runtime" THEN leave_dfu_mode(desc, out)
    ELSE enter_dfu_mode(desc, out)

\* request_detach(): dispatch on the handle's cached mode.
request_detach(handle, desc, out) ==
    IF handle.mode = "Runtime" THEN enter_dfu_mode(desc, out)
    ELSE leave_dfu_mode(desc, out)

\* std::time::Instant::duration_since(&self, earlier): self - earlier, or
\* zero when `earlier` is later than self (it saturates since Rust 1.60).
DurationSince(instant, earlier) ==
    IF instant >= earlier THEN instant - earlier ELSE 0

\* Duration::from_secs(5), the timeout detach_and_enumerate waits with.
REBOOT_TIMEOUT_MS == 5000
\* Duration::from_millis(200), the sleep between two polls.
POLL_INTERVAL_MS == 200

(***************************************************************************)
(* Bounds of the model.                                                    *)
(***************************************************************************)
\* The most devices on the bus in a scan of SpecScan.
MaxDevs == 2
\* The most polls one call of wait_for_probe_reboot makes in Spec.
MaxPolls == 6
\* The most calls of serial_number() made on one handle in SpecSerial.
MaxCalls == 3
\* The timeouts (ms) wait_for_probe_reboot is called with directly.
Timeouts == {400, 800}

Serials == {"A", "B"}

(***************************************************************************)
(* The state.                                                              *)
(*   usb       the devices on the bus, in libusb's enumeration order       *)
(*   ctx       the outcome of Context::new() and devices() in the scan     *)
(*   matcher   the criteria of the scan                                    *)
(*   scan_pc   where the scan (and the pop that follows it) stands         *)
(*   index     the loop's position in the probe-family sequence            *)
(*   results   the BlackmagicProbeMatchResults of the scan                 *)
(*   popped    the pop made on the results: its name, result, diagnostics  *)
(*   pc        where the caller of the handle's operations stands          *)
(*   op        the operation the caller started                            *)
(*   self      the caller's BlackmagicProbeDevice (None: it holds none)    *)
(*   old       the handle as it was when the operation was called          *)
(*   now       Instant::now(), in milliseconds                             *)
(*   wait      the locals of wait_for_probe_reboot, and of its last poll   *)
(*             the pop used, its diagnostics, the scan's `errors` and the  *)
(*             number of devices it found                                  *)
(*   log       the calls the operation made on the USB host and on the     *)
(*             transfer engine, in order                                   *)
(*   claimed   the interfaces claimed on the handle and not yet released   *)
(*   result    what the operation returned                                 *)
(*   reboot    the product id the probe comes back with after the mode     *)
(*             transition it accepted (None: it is not re-enumerating)     *)
(*   descriptors  what libusb reported of the handle's device when         *)
(*             dfu_descriptors() asked (None: it has not been asked)       *)
(*   engine    what the transfer engine answered: whether DfuLibusb::open  *)
(*             succeeded and the result of its download (None: it was not  *)
(*             invoked)                                                    *)
(*   released  what release_interface answered in the mode transition:     *)
(*             "ok", "NoDevice" or another rusb error (None: it was not    *)
(*             called)                                                     *)
(***************************************************************************)
VARIABLES usb, ctx, matcher, scan_pc, index, results, popped,
          pc, op, self, old, now, wait, log, claimed, result, reboot,
          descriptors, engine, released

scanVars == << ctx, matcher, scan_pc, index, results, popped >>
mainVars == << pc, op, self, old, now, wait, log, claimed, result, reboot,
               descriptors, engine, released >>

(***************************************************************************)
(* The universes of SpecScan.  The device in place k of libusb's list has  *)
(* identity k and sits on port k of the hub on port 1 of bus 1.  A device  *)
(* whose serial cannot be read (it cannot be opened, or one of the two     *)
(* reads fails) has no observable serial: it is given "A".                 *)
(***************************************************************************)
DevicesAt(k) ==
    {Device(k, VID, pid, s, << 1, k >>, f) :
        pid \in {PID_RUNTIME, PID_DFU}, s \in Serials, f \in {"none", "open2"}}
    \cup {Device(k, VID, pid, "A", << 1, k >>, f) :
        pid \in {PID_RUNTIME, PID_DFU}, f \in Faults \ {"none", "open2"}}
    \cup {Device(k, VID, 1, "A", << 1, k >>, "none"),
          Device(k, 1, PID_DFU, "A", << 1, k >>, "none")}

RECURSIVE Universes(_)
Universes(n) ==
    IF n = 0 THEN {<< >>}
    ELSE Universes(n - 1)
         \cup {Append(u, d) : u \in {v \in Universes(n - 1) : Len(v) = n - 1},
                              d \in DevicesAt(n)}

Matchers ==
    {Matcher(i, s, p) : i \in {None, Some(0), Some(1)},
                        s \in {None, Some("A")},
                        p \in {None, Some("1-1.2")}}

NoPop == [op |-> "none", res |-> Ok(Unit), diag |-> << >>]

\* The waiter's locals before wait_for_probe_reboot is entered.
NoWait == [serial |-> "", timeout |-> 0, operation |-> "", start |-> 0,
           dev |-> Err(Error("DeviceNotFound")), polls |-> 0, pop |-> "none",
           diag |-> << >>, errors |-> << >>, matched |-> 0]

(***************************************************************************)
(* SpecScan: one call of find_matching_probes, stepped by loop iteration,  *)
(* followed by one pop on its results.                                     *)
(***************************************************************************)
\* Lines 708-739: the context, the device list, the probe-family filter.
ScanEnter ==
    /\ scan_pc = "enter"
    /\ IF ctx # "ok"
       THEN /\ results' = find_matching_probes(ctx, usb, matcher).results
            /\ scan_pc' = "returned"
       ELSE /\ results' = EmptyResults
            /\ scan_pc' = "loop"
    /\ index' = 0
    /\ UNCHANGED << usb, ctx, matcher, popped >>
    /\ UNCHANGED mainVars

\* Lines 741-824: one iteration of the loop.
ScanIterate ==
    /\ scan_pc = "loop"
    /\ index < Len(Candidates(usb))
    /\ LET step == ScanCandidate(matcher, results, index, Candidates(usb)[index + 1])
       IN  IF step.panic
           THEN /\ scan_pc' = "panicked"
                /\ UNCHANGED << index, results >>
           ELSE /\ results' = step.results
                /\ index' = index + 1
                /\ UNCHANGED scan_pc
    /\ UNCHANGED << usb, ctx, matcher, popped >>
    /\ UNCHANGED mainVars

\* Line 828: the loop is over, the results are returned.
ScanReturn ==
    /\ scan_pc = "loop"
    /\ index >= Len(Candidates(usb))
    /\ scan_pc' = "returned"
    /\ UNCHANGED << usb, ctx, matcher, index, results, popped >>
    /\ UNCHANGED mainVars

Pop(name, out) ==
    /\ scan_pc = "returned"
    /\ scan_pc' = "popped"
    /\ results' = out.results
    /\ popped' = [op |-> name, res |-> out.res, diag |-> out.diag]
    /\ UNCHANGED << usb, ctx, matcher, index >>
    /\ UNCHANGED mainVars

PopSingle == Pop("pop_single", pop_single(results, "flash"))
PopSingleSilent == Pop("pop_single_silent", pop_single_silent(results))
PopAll == Pop("pop_all", pop_all(results))

InitScan ==
    /\ ctx \in ContextOutcomes
    /\ usb \in (IF ctx = "ok" THEN Universes(MaxDevs) ELSE {<< >>})
    /\ matcher \in Matchers
    /\ scan_pc = "enter"
    /\ index = 0
    /\ results = EmptyResults
    /\ popped = NoPop
    /\ pc = "off"
    /\ op = "none"
    /\ self = None
    /\ old = None
    /\ now = 0
    /\ wait = NoWait
    /\ log = << >>
    /\ claimed = {}
    /\ result = None
    /\ reboot = None
    /\ descriptors = None
    /\ engine = None
    /\ released = None

NextScan ==
    \/ ScanEnter
    \/ ScanIterate
    \/ ScanReturn
    \/ PopSingle
    \/ PopSingleSilent
    \/ PopAll

vars == << usb, ctx, matcher, scan_pc, index, results, popped,
          pc, op, self, old, now, wait, log, claimed, result, reboot,
          descriptors, engine, released >>

SpecScan == InitScan /\ [][NextScan]_vars

(***************************************************************************)
(* Spec: one operation on a handle (download, detach_and_enumerate,        *)
(* request_detach) or one call of wait_for_probe_reboot, with the probe    *)
(* leaving and entering the bus as the environment.                        *)
(*                                                                         *)
(* The probe under test has serial "A"; libusb knows its Runtime           *)
(* personality as device 1 and its DFU personality as device 2.  A twin    *)
(* (device 3) reports the same serial; a bystander (device 4) is another   *)
(* probe, with serial "B".                                                 *)
(***************************************************************************)
RuntimeId == 1
DfuId == 2
TwinId == 3
BystanderId == 4

Target(pid, fault) ==
    Device(IF pid = PID_RUNTIME THEN RuntimeId ELSE DfuId, VID, pid, "A", << 1, 1 >>, fault)
Twin == Device(TwinId, VID, PID_DFU, "A", << 1, 2 >>, "none")
Bystander(fault) == Device(BystanderId, VID, PID_RUNTIME, "B", << 1, 3 >>, fault)

OtherPid(pid) == IF pid = PID_RUNTIME THEN PID_DFU ELSE PID_RUNTIME

\* The faults of a probe that has just entered the bus, or is asked for its
\* serial.
ProbeFaults == {"none", "open", "langsErr", "langsEmpty", "serial"}

DescriptorSpace ==
    {Descriptors(c, Some(i), x) :
        c \in {"ok", "unconfigured"}, i \in {0, 1},
        x \in {<< Extra(DFU_FUNCTIONAL_TYPE, 9, 255, TRUE) >>,
               << Extra(36, 5, 0, TRUE), Extra(DFU_FUNCTIONAL_TYPE, 9, 1000, TRUE) >>}}
    \cup {Descriptors(c, Some(0), << Extra(DFU_FUNCTIONAL_TYPE, 9, 255, TRUE) >>) :
        c \in {"err", "unconfigured_err"}}
    \cup {Descriptors("ok", None, << >>)}
    \cup {Descriptors("ok", Some(0), x) :
        x \in {<< >>, << Extra(36, 5, 0, TRUE) >>,
               << Extra(DFU_FUNCTIONAL_TYPE, 7, 255, TRUE) >>,
               << Extra(DFU_FUNCTIONAL_TYPE, 9, 255, FALSE) >>}}

Outcomes ==
    [claim : {"ok", "err"}, ctl : {"ok", "err"}, ctl2 : {"ok", "err"},
     rel : {"ok", "NoDevice", "Io", "Other"}]

Handle == Unwrap(self)

WithoutDevice(devices, id) == SelectSeq(devices, LAMBDA d : d.id # id)

\* A mutant of download(): the transfer engine is invoked whatever the mode.
Download_no_detach ==
    /\ pc = "idle"
    /\ IsSome(self)
    /\ op' = "download"
    /\ pc' = "engine"
    /\ old' = self
    /\ UNCHANGED << usb, self, now, wait, log, claimed, result, reboot >>
    /\ UNCHANGED << descriptors, engine, released >>
    /\ UNCHANGED scanVars

\* download(), lines 445-447: a Runtime handle goes through
\* detach_and_enumerate first.
Download ==
    /\ pc = "idle"
    /\ IsSome(self)
    /\ op' = "download"
    /\ pc' = IF Handle.mode = "Runtime" THEN "serial" ELSE "engine"
    /\ old' = self
    /\ UNCHANGED << usb, self, now, wait, log, claimed, result, reboot >>
    /\ UNCHANGED << descriptors, engine, released >>
    /\ UNCHANGED scanVars

\* detach_and_enumerate() is called.
DetachAndEnumerate ==
    /\ pc = "idle"
    /\ IsSome(self)
    /\ op' = "detach_and_enumerate"
    /\ pc' = "serial"
    /\ old' = self
    /\ UNCHANGED << usb, self, now, wait, log, claimed, result, reboot >>
    /\ UNCHANGED << descriptors, engine, released >>
    /\ UNCHANGED scanVars

\* request_detach() is called on its own.
RequestDetach ==
    /\ pc = "idle"
    /\ IsSome(self)
    /\ op' = "request_detach"
    /\ pc' = "detach"
    /\ old' = self
    /\ UNCHANGED << usb, self, now, wait, log, claimed, result, reboot >>
    /\ UNCHANGED << descriptors, engine, released >>
    /\ UNCHANGED scanVars

\* wait_for_probe_reboot(serial, timeout, operation) is called on its own.
WaitForProbeReboot ==
    /\ pc = "idle"
    /\ \E serial \in Serials, timeout \in Timeouts :
           wait' = [wait EXCEPT !.serial = serial, !.timeout = timeout,
                                !.operation = "test"]
    /\ op' = "wait_for_probe_reboot"
    /\ pc' = "wait_enter"
    /\ old' = self
    /\ UNCHANGED << usb, self, now, log, claimed, result, reboot >>
    /\ UNCHANGED << descriptors, engine, released >>
    /\ UNCHANGED scanVars

\* A mutant of the serial read: a failure is ignored and the transition
\* goes on with an empty serial.
ReadSerial_ignore_failure ==
    /\ pc = "serial"
    /\ LET r == serial_number(Handle, usb)
       IN  /\ self' = Some(r.handle)
           /\ log' = log \o [i \in 1..Len(r.reads) |-> Req(r.reads[i], 0, 0, 0, TRUE)]
           /\ wait' = [wait EXCEPT !.serial = IF r.res.ok THEN r.res.val ELSE "",
                                    !.timeout = REBOOT_TIMEOUT_MS,
                                    !.operation = "flash"]
           /\ pc' = "detach"
    /\ UNCHANGED << usb, op, old, now, claimed, result, reboot >>
    /\ UNCHANGED << descriptors, engine, released >>
    /\ UNCHANGED scanVars

\* detach_and_enumerate(), lines 409-411: the serial is read (and cached)
\* before anything is sent.
ReadSerial ==
    /\ pc = "serial"
    /\ LET r == serial_number(Handle, usb)
       IN  /\ self' = Some(r.handle)
           /\ log' = log \o [i \in 1..Len(r.reads) |-> Req(r.reads[i], 0, 0, 0, TRUE)]
           /\ IF r.res.ok
              THEN /\ wait' = [wait EXCEPT !.serial = r.res.val,
                                           !.timeout = REBOOT_TIMEOUT_MS,
                                           !.operation = "flash"]
                   /\ pc' = "detach"
                   /\ UNCHANGED result
              ELSE /\ result' = Some(Err(WithCtx(r.res.err, "reading device serial number")))
                   /\ pc' = "done"
                   /\ UNCHANGED wait
    /\ UNCHANGED << usb, op, old, now, claimed, reboot >>
    /\ UNCHANGED << descriptors, engine, released >>
    /\ UNCHANGED scanVars

\* request_detach(), lines 388-401, with enter_dfu_mode / leave_dfu_mode.
\* A probe that accepted the request re-enumerates with the other product
\* id; it has left the bus already when the release meets NoDevice.
SendDetach ==
    /\ pc = "detach"
    /\ \E desc \in DescriptorSpace, out \in Outcomes :
        LET r == request_detach(Handle, desc, out)
            accepted == /\ ~r.panic
                        /\ \E i \in 1..Len(r.log) :
                               /\ r.log[i].call \in {"DETACH", "GETSTATUS"}
                               /\ r.log[i].ok
            dev == DeviceById(usb, Handle.device)
        IN  /\ Handle.mode = "Runtime" => out.ctl2 = "ok"
            /\ out.rel = "NoDevice" => accepted
            /\ descriptors' = Some(desc)
            /\ released' = IF \E i \in 1..Len(r.log) : r.log[i].call = "release_interface"
                           THEN Some(out.rel) ELSE None
            /\ log' = log \o r.log
            /\ claimed' = claimed \cup r.held
            /\ IF accepted
               THEN IF out.rel = "NoDevice"
                    THEN /\ usb' = WithoutDevice(usb, dev.id)
                         /\ reboot' = Some([leaving |-> 0, pid |-> OtherPid(dev.pid)])
                    ELSE /\ usb' = usb
                         /\ reboot' = Some([leaving |-> dev.id, pid |-> OtherPid(dev.pid)])
               ELSE UNCHANGED << usb, reboot >>
            /\ IF r.panic
               THEN /\ pc' = "panicked"
                    /\ UNCHANGED result
               ELSE IF ~r.res.ok \/ op = "request_detach"
               THEN /\ pc' = "done"
                    /\ result' = Some(r.res)
               ELSE /\ pc' = "wait_enter"
                    /\ UNCHANGED result
    /\ UNCHANGED << op, self, old, now, wait, engine >>
    /\ UNCHANGED scanVars

\* A mutant of the loop condition: the loop goes on after any error.
IsNotFound_any_error(res) == ~res.ok

\* The loop condition of line 846: `dev` is Err(DeviceNotFound).
IsNotFound(res) == IF res.ok THEN FALSE ELSE res.err.kind = "DeviceNotFound"

\* One poll of the waiter: the scan for the serial, then the pop.
Poll(c, verbose) ==
    LET scan == find_matching_probes(c, usb, Matcher(None, Some(wait.serial), None))
        p == IF verbose THEN pop_single(scan.results, wait.operation)
             ELSE pop_single_silent(scan.results)
    IN  [panic |-> scan.panic, res |-> p.res, diag |-> p.diag,
         pop |-> IF verbose THEN "pop_single" ELSE "pop_single_silent",
         errors |-> scan.results.errors, matched |-> Len(scan.results.found)]

\* A mutant of the caller of wait_for_probe_reboot: a failed wait marks the
\* handle with the mode the probe was asked to enter.
Returned_marks_stale(res) ==
    IF op = "wait_for_probe_reboot" \/ ~res.ok
    THEN /\ result' = Some(res)
         /\ pc' = "done"
         /\ self' = IF op = "wait_for_probe_reboot" THEN self
                    ELSE Some([Handle EXCEPT !.mode = IF @ = "Runtime"
                                                      THEN "FirmwareUpgrade"
                                                      ELSE "Runtime"])
         /\ UNCHANGED claimed
    ELSE /\ self' = Some(res.val)
         /\ claimed' = {}
         /\ IF op = "download"
            THEN /\ pc' = "engine"
                 /\ UNCHANGED result
            ELSE /\ pc' = "done"
                 /\ result' = Some(Ok(Unit))

\* What the caller of wait_for_probe_reboot does with its result `res`:
\* detach_and_enumerate (lines 416-422) returns an error, or replaces the
\* handle; download (line 446) then goes on to the transfer engine.
Returned(res) ==
    IF op = "wait_for_probe_reboot" \/ ~res.ok
    THEN /\ result' = Some(res)
         /\ pc' = "done"
         /\ UNCHANGED << self, claimed >>
    ELSE /\ self' = Some(res.val)
         /\ claimed' = {}
         /\ IF op = "download"
            THEN /\ pc' = "engine"
                 /\ UNCHANGED result
            ELSE /\ pc' = "done"
                 /\ result' = Some(Ok(Unit))

\* wait_for_probe_reboot, lines 834-844: the clock is read and the first
\* poll is made.
WaitEnter ==
    /\ pc = "wait_enter"
    /\ \E c \in ContextOutcomes :
        LET p == Poll(c, FALSE)
        IN  IF p.panic
            THEN /\ pc' = "panicked"
                 /\ UNCHANGED wait
            ELSE /\ pc' = "wait"
                 /\ wait' = [wait EXCEPT !.start = now, !.dev = p.res, !.polls = 1,
                                         !.pop = p.pop, !.diag = p.diag,
                                         !.errors = p.errors, !.matched = p.matched]
    /\ UNCHANGED << usb, op, self, old, now, log, claimed, result, reboot >>
    /\ UNCHANGED << descriptors, engine, released >>
    /\ UNCHANGED scanVars

\* Lines 846-867: one iteration of the loop, entered on DeviceNotFound.
WaitIterate ==
    /\ pc = "wait"
    /\ IsNotFound(wait.dev)
    /\ IF DurationSince(wait.start, now) > wait.timeout
       THEN /\ Returned(Err(ErrorFrom("DeviceReboot", wait.dev.err)))
            /\ UNCHANGED << now, wait >>
       ELSE /\ wait.polls < MaxPolls
            /\ now' = now + POLL_INTERVAL_MS
            /\ \E c \in ContextOutcomes :
                LET p == Poll(c, DurationSince(wait.start, now') > wait.timeout \div 2)
                IN  IF p.panic
                    THEN /\ pc' = "panicked"
                         /\ UNCHANGED wait
                    ELSE /\ pc' = "wait"
                         /\ wait' = [wait EXCEPT !.dev = p.res, !.polls = @ + 1,
                                                 !.pop = p.pop, !.diag = p.diag,
                                                 !.errors = p.errors,
                                                 !.matched = p.matched]
            /\ UNCHANGED << self, claimed, result >>
    /\ UNCHANGED << usb, op, old, log, reboot >>
    /\ UNCHANGED << descriptors, engine, released >>
    /\ UNCHANGED scanVars

\* Lines 869-871: the loop is left on Ok or on an error other than
\* DeviceNotFound, which `dev?` returns.
WaitReturn ==
    /\ pc = "wait"
    /\ ~IsNotFound(wait.dev)
    /\ Returned(wait.dev)
    /\ UNCHANGED << usb, op, old, now, wait, log, reboot >>
    /\ UNCHANGED << descriptors, engine, released >>
    /\ UNCHANGED scanVars

\* What the transfer engine answers: DfuLibusb::open fails, or it succeeds
\* and DfuLibusb::download returns Ok or a dfu_libusb::Error, LibUsb(code).
EngineOutcomes ==
    {[open |-> FALSE, res |-> Err("CouldNotOpenDevice")],
     [open |-> FALSE, res |-> Err("NoDevice")],
     [open |-> TRUE, res |-> Ok(Unit)],
     [open |-> TRUE, res |-> Err("NoDevice")],
     [open |-> TRUE, res |-> Err("Io")],
     [open |-> TRUE, res |-> Err("Timeout")]}

\* A mutant of the closure of map_err: every failure of the download is
\* reported as a disconnection.
MapDownloadError_always(source) ==
    ErrorFrom("DeviceDisconnectDuringOperation", DfuLibusbError(source))

\* The closure of map_err, lines 462-473: LibUsb(NoDevice) becomes
\* DeviceDisconnectDuringOperation, any other error is converted as it is.
MapDownloadError(source) ==
    IF source = "NoDevice"
    THEN ErrorFrom("DeviceDisconnectDuringOperation", DfuLibusbError(source))
    ELSE DfuLibusbError(source)

\* download(), lines 449-477: the transfer engine is opened on the DFU ids
\* and asked to download.  It can open only a DFU-mode probe on the bus.
TransferEngine ==
    /\ pc = "engine"
    /\ \E o \in EngineOutcomes :
        LET open == Req("DfuLibusb::open", VID, PID_DFU, 0, o.open)
            download == Req("DfuLibusb::download", 0, 0, 0, o.res.ok)
        IN  /\ o.open =>
                   \E i \in 1..Len(usb) : usb[i].vid = VID /\ usb[i].pid = PID_DFU
            /\ engine' = Some(o)
            /\ log' = IF o.open THEN log \o << open, download >>
                      ELSE Append(log, open)
            /\ result' = Some(
                   IF ~o.open THEN Err(DfuLibusbError(o.res.err))
                   ELSE IF o.res.ok THEN Ok(Unit)
                   ELSE Err(MapDownloadError(o.res.err)))
    /\ pc' = "done"
    /\ UNCHANGED << usb, op, self, old, now, wait, claimed, reboot, descriptors,
                    released >>
    /\ UNCHANGED scanVars

(***************************************************************************)
(* The environment: the probe that accepted a mode transition leaves the   *)
(* bus and enters it again with its other product id; a probe that has     *)
(* just entered may fail its first reads, and settles.                     *)
(***************************************************************************)
Running == pc \in {"idle", "serial", "detach", "wait_enter", "wait", "engine"}

ProbeLeavesBus ==
    /\ Running
    /\ IsSome(reboot)
    /\ Unwrap(reboot).leaving # 0
    /\ usb' = WithoutDevice(usb, Unwrap(reboot).leaving)
    /\ reboot' = Some([Unwrap(reboot) EXCEPT !.leaving = 0])
    /\ UNCHANGED << pc, op, self, old, now, wait, log, claimed, result >>
    /\ UNCHANGED << descriptors, engine, released >>
    /\ UNCHANGED scanVars

ProbeEntersBus ==
    /\ Running
    /\ IsSome(reboot)
    /\ Unwrap(reboot).leaving = 0
    /\ \E f \in ProbeFaults \ {"langsEmpty"} :
           usb' = Append(usb, Target(Unwrap(reboot).pid, f))
    /\ reboot' = None
    /\ UNCHANGED << pc, op, self, old, now, wait, log, claimed, result >>
    /\ UNCHANGED << descriptors, engine, released >>
    /\ UNCHANGED scanVars

ProbeSettles ==
    /\ Running
    /\ \E i \in 1..Len(usb) :
        /\ usb[i].id \in {RuntimeId, DfuId}
        /\ usb[i].fault # "none"
        /\ usb' = [usb EXCEPT ![i].fault = "none"]
    /\ UNCHANGED mainVars
    /\ UNCHANGED << descriptors, engine, released >>
    /\ UNCHANGED scanVars

Buses ==
    {t \o w \o b :
        t \in {<< >>} \cup {<< Target(pid, f) >> :
                  pid \in {PID_RUNTIME, PID_DFU},
                  f \in {"none", "langsErr", "langsEmpty", "serial"}},
        w \in {<< >>, << Twin >>},
        b \in {<< >>} \cup {<< Bystander(f) >> : f \in {"none", "open", "langsEmpty"}}}

Init ==
    /\ usb \in Buses
    /\ \E t \in {RuntimeId, DfuId, 0} :
        /\ t # 0 => OnBus(usb, t)
        /\ t = 0 => ~OnBus(usb, RuntimeId) /\ ~OnBus(usb, DfuId)
        /\ self = IF t = 0 THEN None
                  ELSE Some(Probe(t, IF t = RuntimeId THEN "Runtime"
                                                      ELSE "FirmwareUpgrade"))
    /\ reboot \in IF OnBus(usb, RuntimeId) \/ OnBus(usb, DfuId) THEN {None}
                  ELSE {Some([leaving |-> 0, pid |-> q]) : q \in {PID_RUNTIME, PID_DFU}}
    /\ old = self
    /\ pc = "idle"
    /\ op = "none"
    /\ now = 0
    /\ wait = NoWait
    /\ log = << >>
    /\ claimed = {}
    /\ result = None
    /\ descriptors = None
    /\ engine = None
    /\ released = None
    /\ ctx = "ok"
    /\ matcher = Matcher(None, None, None)
    /\ scan_pc = "off"
    /\ index = 0
    /\ results = EmptyResults
    /\ popped = NoPop

Next ==
    \/ Download
    \/ DetachAndEnumerate
    \/ RequestDetach
    \/ WaitForProbeReboot
    \/ ReadSerial
    \/ SendDetach
    \/ WaitEnter
    \/ WaitIterate
    \/ WaitReturn
    \/ TransferEngine
    \/ ProbeLeavesBus
    \/ ProbeEntersBus
    \/ ProbeSettles

Spec == Init /\ [][Next]_vars

(***************************************************************************)
(* SpecMode: the identity table applied to one device, directly            *)
(* (mode_from_vid_pid) or through from_usb_device.  The ids are drawn from *)
(* the 16-bit values at and around the table's entries and at the ends of  *)
(* the range.                                                              *)
(***************************************************************************)
Vids == {0, 1, VID - 1, VID, VID + 1, PID_DFU, PID_RUNTIME, 65535}
Pids == {0, 1, PID_DFU - 1, PID_DFU, PID_RUNTIME, PID_RUNTIME + 1, VID, 65535}

\* BmpVidPid::mode_from_vid_pid(vid, pid) is called with the device's ids.
ModeFromVidPid ==
    /\ pc = "idle"
    /\ op' = "mode_from_vid_pid"
    /\ result' = Some(mode_from_vid_pid(usb[1].vid, usb[1].pid))
    /\ pc' = "done"
    /\ UNCHANGED << usb, self, old, now, wait, log, claimed, reboot >>
    /\ UNCHANGED << descriptors, engine, released >>
    /\ UNCHANGED scanVars

\* BlackmagicProbeDevice::from_usb_device(device) is called.
FromUsbDevice ==
    /\ pc = "idle"
    /\ op' = "from_usb_device"
    /\ result' = Some(from_usb_device(usb[1], 1))
    /\ pc' = "done"
    /\ UNCHANGED << usb, self, old, now, wait, log, claimed, reboot >>
    /\ UNCHANGED << descriptors, engine, released >>
    /\ UNCHANGED scanVars

InitMode ==
    /\ usb \in {<< Device(1, vid, pid, "A", << 1, 1 >>, "none") >> :
                    vid \in Vids, pid \in Pids}
    /\ self = None
    /\ old = None
    /\ reboot = None
    /\ pc = "idle"
    /\ op = "none"
    /\ now = 0
    /\ wait = NoWait
    /\ log = << >>
    /\ claimed = {}
    /\ result = None
    /\ descriptors = None
    /\ engine = None
    /\ released = None
    /\ ctx = "ok"
    /\ matcher = Matcher(None, None, None)
    /\ scan_pc = "off"
    /\ index = 0
    /\ results = EmptyResults
    /\ popped = NoPop

NextMode ==
    \/ ModeFromVidPid
    \/ FromUsbDevice

SpecMode == InitMode /\ [][NextMode]_vars

(***************************************************************************)
(* SpecSerial: serial_number() called again and again on one handle, made  *)
(* by from_usb_device, while the device behind it changes: its reads start *)
(* or stop failing, the string it reports changes, it leaves the bus or    *)
(* comes back.  `now` counts the calls made.                               *)
(***************************************************************************)
\* What the bus can hold of the handle's device.
SerialBuses(pid) ==
    {<< >>} \cup {<< Device(RuntimeId, VID, pid, s, << 1, 1 >>, f) >> :
                     s \in Serials, f \in ProbeFaults}

\* serial_number(), lines 186-218.
SerialNumber ==
    /\ pc = "idle"
    /\ now < MaxCalls
    /\ LET r == serial_number(Handle, usb)
       IN  /\ old' = self
           /\ self' = Some(r.handle)
           /\ log' = log \o [i \in 1..Len(r.reads) |-> Req(r.reads[i], 0, 0, 0, TRUE)]
           /\ result' = Some(r.res)
    /\ now' = now + 1
    /\ UNCHANGED << usb, pc, op, wait, claimed, reboot >>
    /\ UNCHANGED << descriptors, engine, released >>
    /\ UNCHANGED scanVars

\* The device behind the handle changes between two calls.
DeviceChanges ==
    /\ pc = "idle"
    /\ usb' \in SerialBuses(IF Handle.mode = "Runtime" THEN PID_RUNTIME ELSE PID_DFU) \ {usb}
    /\ UNCHANGED mainVars
    /\ UNCHANGED scanVars

InitSerial ==
    /\ \E pid \in {PID_RUNTIME, PID_DFU} :
        /\ usb \in {u \in SerialBuses(pid) : u # << >> /\ from_usb_device(u[1], 1).ok}
        /\ self = Some(from_usb_device(usb[1], 1).val)
    /\ old = None
    /\ reboot = None
    /\ pc = "idle"
    /\ op = "serial_number"
    /\ now = 0
    /\ wait = NoWait
    /\ log = << >>
    /\ claimed = {}
    /\ result = None
    /\ descriptors = None
    /\ engine = None
    /\ released = None
    /\ ctx = "ok"
    /\ matcher = Matcher(None, None, None)
    /\ scan_pc = "off"
    /\ index = 0
    /\ results = EmptyResults
    /\ popped = NoPop

NextSerial ==
    \/ SerialNumber
    \/ DeviceChanges

SpecSerial == InitSerial /\ [][NextSerial]_vars

(***************************************************************************)
(* Properties of the scan and of the aggregator (SpecScan).                *)
(***************************************************************************)
FoundIds(r) == {r.found[i].device : i \in 1..Len(r.found)}
FilteredIds(r) == {r.filtered_out[i] : i \in 1..Len(r.filtered_out)}
ErrorIds(r) == {r.errors[i].of : i \in 1..Len(r.errors)}
CandidateIds(devices) == {Candidates(devices)[i].id : i \in 1..Len(Candidates(devices))}

\* C8: when enumeration succeeded and find_matching_probes returns, `found`,
\* `filtered_out` and `errors` are pairwise disjoint, together they hold
\* exactly the probe-family devices, and their sizes add up to the number of
\* probe-family devices.
C8_Partition ==
    (scan_pc = "returned" /\ ctx = "ok") =>
        /\ FoundIds(results) \cap FilteredIds(results) = {}
        /\ FoundIds(results) \cap ErrorIds(results) = {}
        /\ FilteredIds(results) \cap ErrorIds(results) = {}
        /\ FoundIds(results) \cup FilteredIds(results) \cup ErrorIds(results)
               = CandidateIds(usb)
        /\ Len(results.found) + Len(results.filtered_out) + Len(results.errors)
               = Len(Candidates(usb))

\* A scan returned with one candidate in `found` and another in `errors`.
C8_Witness ==
    /\ scan_pc = "returned"
    /\ ctx = "ok"
    /\ results.found # << >>
    /\ results.errors # << >>

\* The evaluation of candidate `dev` at position `i` fails: the open, the
\* language list (an error or an empty list) or the serial read when a serial
\* is asked for, or the construction of the handle when the criteria match.
EvaluationFails(m, i, dev) ==
    \/ /\ IsSome(m.serial)
       /\ dev.fault \in {"open", "langsErr", "langsEmpty", "serial"}
    \/ /\ IsSome(m.serial) => Some(dev.serial) = m.serial
       /\ IsSome(m.index) => Unwrap(m.index) = i
       /\ IsSome(m.port) => Unwrap(m.port) = PortPath(dev)
       /\ dev.fault = (IF IsSome(m.serial) THEN "open2" ELSE "open")

\* C9: a scan that has ended has evaluated every candidate, and every
\* candidate whose evaluation failed has an entry in `errors`.
C9_FailureNeverAbortsScan ==
    (ctx = "ok" /\ scan_pc \in {"returned", "panicked"}) =>
        /\ index = Len(Candidates(usb))
        /\ \A i \in 1..Len(Candidates(usb)) :
               EvaluationFails(matcher, i - 1, Candidates(usb)[i])
                   => Candidates(usb)[i].id \in ErrorIds(results)

\* C10: pop_single decides by the size of `found` alone: empty gives
\* DeviceNotFound, one entry gives that entry and empties `found`, more give
\* TooManyDevices and leave `found` as it was; `filtered_out` and `errors`
\* are never changed.
C10_PopSingle ==
    [][(scan_pc = "returned" /\ popped'.op = "pop_single") =>
        /\ results'.filtered_out = results.filtered_out
        /\ results'.errors = results.errors
        /\ Len(results.found) = 0 =>
               /\ popped'.res = Err(Error("DeviceNotFound"))
               /\ results'.found = results.found
        /\ Len(results.found) = 1 =>
               /\ popped'.res = Ok(results.found[1])
               /\ results'.found = << >>
        /\ Len(results.found) > 1 =>
               /\ popped'.res = Err(Error("TooManyDevices"))
               /\ results'.found = results.found]_vars

\* pop_single handed out the single match of a scan that recorded errors.
C10_Witness ==
    /\ scan_pc = "popped"
    /\ popped.op = "pop_single"
    /\ popped.res.ok
    /\ results.errors # << >>

\* A device of the probe family, by the identity table.
ProbeFamily(dev) == dev.vid = VID /\ dev.pid \in {PID_RUNTIME, PID_DFU}

\* The probe-family devices on the bus, in enumeration order.
Family == SelectSeq(usb, ProbeFamily)

\* The handle find_matching_probes makes of a probe-family device.
HandleOf(dev) ==
    Probe(dev.id, IF dev.pid = PID_RUNTIME THEN "Runtime" ELSE "FirmwareUpgrade")

HandlesOf(devs) == [i \in 1..Len(devs) |-> HandleOf(devs[i])]

IdsOf(devs) == {devs[i].id : i \in 1..Len(devs)}

CannotOpen(dev) == dev.fault = "open"

\* The serial of the device cannot be read: the open or one of the reads
\* fails.
Unreadable(dev) == dev.fault \in {"open", "langsErr", "langsEmpty", "serial"}

\* The scan has returned after a successful enumeration.
ScanReturned == scan_pc = "returned" /\ ctx = "ok"

\* C11, as claimed: with no criterion set, `found` holds every probe-family
\* device, in enumeration order, and `filtered_out` is empty.
C11_UnsetFindsEvery ==
    (ScanReturned /\ matcher = Matcher(None, None, None)) =>
        /\ results.found = HandlesOf(Family)
        /\ results.filtered_out = << >>

\* C11, amended: with no criterion set, `found` holds, in enumeration order,
\* every probe-family device that could be opened, `errors` holds one entry
\* for every probe-family device that could not, and `filtered_out` is
\* empty.
C11_UnsetFindsEveryOpened ==
    (ScanReturned /\ matcher = Matcher(None, None, None)) =>
        /\ results.found = HandlesOf(SelectSeq(Family, LAMBDA d : ~CannotOpen(d)))
        /\ results.filtered_out = << >>
        /\ ErrorIds(results) = IdsOf(SelectSeq(Family, CannotOpen))
        /\ Len(results.errors) = Len(SelectSeq(Family, CannotOpen))

\* A scan with no criterion set found one probe and could not open another.
C11_Witness ==
    /\ ScanReturned
    /\ matcher = Matcher(None, None, None)
    /\ Len(Family) = 2
    /\ Len(results.found) = 1
    /\ Len(results.errors) = 1

\* One of the criteria set matches none of the probe-family devices: the
\* index is past the last of them, none sits on the port, or none reports
\* the serial.
CriterionMatchesNone ==
    \/ IsSome(matcher.index) /\ Unwrap(matcher.index) >= Len(Family)
    \/ /\ IsSome(matcher.port)
       /\ \A i \in 1..Len(Family) : PortPath(Family[i]) # Unwrap(matcher.port)
    \/ /\ IsSome(matcher.serial)
       /\ \A i \in 1..Len(Family) :
              Unreadable(Family[i]) \/ Family[i].serial # Unwrap(matcher.serial)

\* C12, as claimed: when there are probe-family devices and a criterion
\* matches none of them, `found` is empty and `filtered_out` is not.
C12_NoMatchFiltersOut ==
    (ScanReturned /\ Family # << >> /\ CriterionMatchesNone) =>
        /\ results.found = << >>
        /\ results.filtered_out # << >>

\* C12, amended: when there are probe-family devices and a criterion
\* matches none of them, `found` is empty and `filtered_out` holds exactly
\* the probe-family devices whose evaluation reached the comparison: all of
\* them when no serial is asked for, those whose serial could be read
\* otherwise; the others are in `errors`.
C12_NoMatchFiltersEvaluated ==
    (ScanReturned /\ Family # << >> /\ CriterionMatchesNone) =>
        /\ results.found = << >>
        /\ results.filtered_out =
               [i \in 1..Len(SelectSeq(Family,
                       LAMBDA d : IsSome(matcher.serial) => ~Unreadable(d))) |->
                   SelectSeq(Family,
                       LAMBDA d : IsSome(matcher.serial) => ~Unreadable(d))[i].id]
        /\ ErrorIds(results) =
               IdsOf(SelectSeq(Family,
                       LAMBDA d : IsSome(matcher.serial) /\ Unreadable(d)))
        /\ matcher.serial = None => results.filtered_out # << >>

\* A scan for a serial that no probe reports filtered one probe out and
\* could not read the serial of another.
C12_Witness ==
    /\ ScanReturned
    /\ CriterionMatchesNone
    /\ IsSome(matcher.serial)
    /\ Len(results.filtered_out) = 1
    /\ Len(results.errors) = 1

\* C14: pop_all decides by `found` alone: empty gives DeviceNotFound and
\* leaves the results as they were; otherwise it gives Ok with the entries
\* of `found` in their order and empties `found`, whether or not `errors` is
\* empty; `filtered_out` and `errors` are never changed.
C14_PopAll ==
    [][(scan_pc = "returned" /\ popped'.op = "pop_all") =>
        /\ results.found = << >> =>
               /\ popped'.res = Err(Error("DeviceNotFound"))
               /\ results' = results
        /\ results.found # << >> =>
               /\ popped'.res = Ok(results.found)
               /\ results' = [results EXCEPT !.found = << >>]]_vars

\* pop_all handed out the two matches of a scan.
C14_Witness ==
    /\ scan_pc = "popped"
    /\ popped.op = "pop_all"
    /\ popped.res.ok
    /\ Len(popped.res.val) = 2
    /\ popped.res.val[1].device < popped.res.val[2].device
    /\ results.found = << >>

\* C23: with an index criterion i, `found` holds at most one device, and it
\* is the probe-family device in place i (from 0) of the probe-family
\* sequence, whatever the raw list holds before it and whatever became of
\* the candidates before it; when that device is not in `found` it is in
\* `errors` or `filtered_out`, and every other probe-family device is in
\* one of those two.
C23_IndexCountsProbeFamily ==
    (ScanReturned /\ IsSome(matcher.index)) =>
        LET i == Unwrap(matcher.index)
        IN  /\ Len(results.found) <= 1
            /\ \A k \in 1..Len(results.found) :
                   /\ i < Len(Family)
                   /\ results.found[k] = HandleOf(Family[i + 1])
            /\ \A k \in 1..Len(Family) :
                   (k # i + 1 \/ results.found = << >>) =>
                       Family[k].id \in FilteredIds(results) \cup ErrorIds(results)

\* The index criterion 1 found the second probe-family device after the
\* first one ended in `errors`.
C23_Witness ==
    /\ ScanReturned
    /\ matcher.index = Some(1)
    /\ Len(Family) = 2
    /\ results.found = << HandleOf(Family[2]) >>
    /\ Family[1].id \in ErrorIds(results)

\* C24: pop_single_silent and pop_single(operation) return the same result
\* and leave found, filtered_out and errors in the same state, from every
\* state of the results and for every operation name; pop_single_silent
\* logs nothing.
C24_SilentIsPopSingle ==
    [][(scan_pc = "returned" /\ popped'.op \in {"pop_single", "pop_single_silent"}) =>
        /\ \A operation \in {"flash", "info"} :
            /\ popped'.res = pop_single(results, operation).res
            /\ results' = pop_single(results, operation).results
        /\ popped'.res = pop_single_silent(results).res
        /\ results' = pop_single_silent(results).results
        /\ pop_single_silent(results).diag = << >>]_vars

\* pop_single_silent handed out the single match of a scan that filtered
\* another probe out, where pop_single would have logged nothing either.
C24_Witness ==
    /\ scan_pc = "popped"
    /\ popped.op = "pop_single_silent"
    /\ popped.res.ok
    /\ popped.diag = << >>
    /\ results.found = << >>
    /\ results.filtered_out # << >>

(***************************************************************************)
(* Properties of the waiter, of the mode transitions and of download       *)
(* (Spec).                                                                 *)
(***************************************************************************)
Calls(name) == {i \in 1..Len(log) : log[i].call = name}

\* The probe-family devices on the bus that report `serial`.
Reporting(serial) ==
    {i \in 1..Len(usb) : IsProbe(usb[i]) /\ usb[i].serial = serial}

\* The waiter's step from one poll to the next.
NextPoll == pc = "wait" /\ pc' = "wait" /\ wait'.polls = wait.polls + 1

\* A step of the program (not of the environment) taken from the waiter's loop.
LeavesPoll == pc = "wait" /\ (pc' # pc \/ wait' # wait \/ now' # now)

\* C1: while every poll has met DeviceNotFound, the waiter is still polling
\* only if no more than the timeout plus one 200 ms interval has passed
\* since it started: after that it has returned (with DeviceReboot).
C1_TimesOutWithinOneInterval ==
    (pc = "wait" /\ IsNotFound(wait.dev)) =>
        now - wait.start <= wait.timeout + POLL_INTERVAL_MS

\* C2: when detach_and_enumerate, called on a handle whose cached mode is
\* Runtime, has returned Ok, the handle's mode is FirmwareUpgrade.
C2_DetachLeavesDfuHandle ==
    (/\ op = "detach_and_enumerate"
     /\ pc = "done"
     /\ Unwrap(old).mode = "Runtime"
     /\ result = Some(Ok(Unit)))
        => Handle.mode = "FirmwareUpgrade"

\* C3: once enter_dfu_mode or leave_dfu_mode has returned, every successful
\* claim_interface(n) it made is followed by a release_interface(n).
C3_ClaimIsReleased ==
    \A i \in Calls("claim_interface") :
        log[i].ok =>
            \E j \in Calls("release_interface") :
                j > i /\ log[j].index = log[i].index

\* C4: a poll made after a poll that met DeviceNotFound, with exactly one
\* probe-family device reporting the serial on the bus, that device
\* answering, the enumeration succeeding and the scan returning, gives Ok
\* with a handle to that device; and the waiter, holding Ok, returns it as
\* its next step, without sleeping and without DeviceReboot.
C4_AbsentThenPresent ==
    [][/\ (/\ NextPoll
           /\ IsNotFound(wait.dev)
           /\ \A k \in 1..Len(wait'.errors) : wait'.errors[k].of # 0
           /\ \E i \in Reporting(wait.serial) :
                  Reporting(wait.serial) = {i} /\ usb[i].fault = "none")
          => (/\ wait'.dev.ok
              /\ \E i \in Reporting(wait.serial) :
                     /\ wait'.dev.val.device = usb[i].id
                     /\ Some(wait'.dev.val.mode) = mode_from_vid_pid(usb[i].vid, usb[i].pid))
       /\ (LeavesPoll /\ wait.dev.ok /\ op = "wait_for_probe_reboot")
          => (pc' = "done" /\ result' = Some(wait.dev) /\ now' = now)]_vars

\* wait_for_probe_reboot returned Ok after polls that did not find the serial.
C4_Witness ==
    /\ op = "wait_for_probe_reboot"
    /\ pc = "done"
    /\ wait.polls > 2
    /\ Unwrap(result).ok
    /\ OnBus(usb, Unwrap(result).val.device)
    /\ DeviceById(usb, Unwrap(result).val.device).serial = wait.serial

\* An error of a kind other than DeviceNotFound.
OtherError(res) == IF res.ok THEN FALSE ELSE res.err.kind # "DeviceNotFound"

\* C5: when a poll's result is an error other than DeviceNotFound, the
\* waiter's next step returns that very error: the clock has not moved and
\* no poll was made.
C5_OtherErrorReturnedAtOnce ==
    [][(LeavesPoll /\ OtherError(wait.dev))
          => (/\ pc' = "done"
              /\ result' = Some(wait.dev)
              /\ now' = now
              /\ wait' = wait)]_vars

\* The waiter returned TooManyDevices from a poll made after a sleep.
C5_Witness ==
    /\ pc = "done"
    /\ wait.polls > 1
    /\ result = Some(Err(Error("TooManyDevices")))
    /\ now = wait.start + (wait.polls - 1) * POLL_INTERVAL_MS

\* C6, as claimed: a poll whose scan met a transport failure hands that
\* failure to the caller.
C6_TransportFailurePropagates ==
    (pc = "wait" /\ wait.errors # << >>) =>
        /\ ~wait.dev.ok
        /\ \E k \in 1..Len(wait.errors) : wait.dev.err = wait.errors[k].error

\* C6, amended: a transport failure met while scanning is kept in the
\* scan's `errors` and is never the poll's result, which the number of
\* devices found decides alone: none gives DeviceNotFound, one gives Ok,
\* more give TooManyDevices.  After a poll that met a failure and found
\* nothing the waiter sleeps 200 ms and polls again, unless it gives up with
\* DeviceReboot.
C6_TransportFailureIsNotFound ==
    [][/\ (pc' = "wait" /\ wait'.errors # << >>) =>
              /\ wait'.matched = 0 => wait'.dev = Err(Error("DeviceNotFound"))
              /\ wait'.matched = 1 => wait'.dev.ok
              /\ wait'.matched > 1 => wait'.dev = Err(Error("TooManyDevices"))
       /\ (LeavesPoll /\ wait.errors # << >> /\ wait.matched = 0) =>
              \/ NextPoll /\ now' = now + POLL_INTERVAL_MS
              \/ pc' = "panicked"
              \/ pc' = "done" /\ ~Unwrap(result').ok
                              /\ Unwrap(result').err.kind = "DeviceReboot"]_vars

\* The waiter polled again after a poll whose scan met a transport failure
\* and found nothing.
C6_Witness ==
    /\ pc = "wait"
    /\ wait.polls > 1
    /\ wait.errors # << >>
    /\ wait.dev = Err(Error("DeviceNotFound"))

\* C7: download() on a Runtime handle invokes the transfer engine only after
\* exactly one DETACH request, which succeeded, and after the waiter found
\* the probe; it never sends a second DETACH.  download() on a
\* FirmwareUpgrade handle sends no DETACH, DNLOAD or GETSTATUS.  When the
\* serial read, the mode transition or the wait failed, the transfer engine
\* is not invoked.
C7_DownloadDetachesOnce ==
    op = "download" =>
        /\ Unwrap(old).mode = "Runtime" =>
            /\ Cardinality(Calls("DETACH")) <= 1
            /\ Calls("DNLOAD") \cup Calls("GETSTATUS") = {}
            /\ (pc = "engine" \/ Calls("DfuLibusb::open") # {}) =>
                /\ Cardinality(Calls("DETACH")) = 1
                /\ \A i \in Calls("DETACH") :
                       /\ log[i].ok
                       /\ \A j \in Calls("DfuLibusb::open") \cup Calls("DfuLibusb::download") :
                              i < j
                /\ wait.dev.ok
                /\ Handle = wait.dev.val
        /\ Unwrap(old).mode = "FirmwareUpgrade" =>
            Calls("DETACH") \cup Calls("DNLOAD") \cup Calls("GETSTATUS") = {}
        /\ (pc = "done" /\ Calls("DfuLibusb::open") = {}) => ~Unwrap(result).ok

\* download() on a Runtime handle ran the transfer engine to the end.
C7_Witness ==
    /\ op = "download"
    /\ pc = "done"
    /\ Unwrap(old).mode = "Runtime"
    /\ result = Some(Ok(Unit))
    /\ Calls("DfuLibusb::download") # {}

\* C16: a poll made in the waiter's loop uses pop_single(operation) when
\* more than half of the timeout has passed since the waiter started, and
\* pop_single_silent() otherwise.
C16_VerboseAfterHalfTimeout ==
    (pc = "wait" /\ wait.polls > 1) =>
        wait.pop = (IF now - wait.start > wait.timeout \div 2
                    THEN "pop_single" ELSE "pop_single_silent")

\* The calls of a mode transition in the log.
TransitionCalls ==
    Calls("claim_interface") \cup Calls("DETACH") \cup Calls("DNLOAD")
        \cup Calls("GETSTATUS") \cup Calls("release_interface")

SerialReads == Calls("read_languages") \cup Calls("read_serial_number_string")

\* What serial_number() returns on a handle with an empty cache whose device
\* is on the bus.
SerialOf(dev) ==
    IF dev.fault = "langsErr" THEN Err(LibUsb("Io"))
    ELSE IF dev.fault = "langsEmpty" THEN Err(Error("DeviceSeemsInvalid"))
    ELSE IF dev.fault = "serial" THEN Err(LibUsb("Pipe"))
    ELSE Ok(dev.serial)

\* C17: in detach_and_enumerate every read of the serial comes before every
\* call of the mode transition; when the serial read failed the call has
\* returned that error (with its context) and has made no call of the mode
\* transition; when it succeeded the transition is made on the handle that
\* cached the serial, and the waiter waits for exactly that serial.
C17_SerialBeforeTransition ==
    op = "detach_and_enumerate" =>
        /\ \A i \in TransitionCalls, j \in SerialReads : j < i
        /\ TransitionCalls # {} => SerialReads # {}
        /\ (pc = "done" /\ descriptors = None) =>
            /\ TransitionCalls = {}
            /\ ~SerialOf(DeviceById(usb, Handle.device)).ok
            /\ result = Some(Err([SerialOf(DeviceById(usb, Handle.device)).err
                                     EXCEPT !.ctx = Some("reading device serial number")]))
        /\ pc \in {"detach", "wait_enter", "wait"} =>
            /\ Handle.device = Unwrap(old).device
            /\ Handle.serial = Some("A")
            /\ wait.serial = "A"
        /\ pc = "detach" => TransitionCalls = {}

\* detach_and_enumerate returned the failure of the serial read.
C17_Witness ==
    /\ op = "detach_and_enumerate"
    /\ pc = "done"
    /\ descriptors = None
    /\ SerialReads # {}
    /\ TransitionCalls = {}
    /\ ~Unwrap(result).ok
    /\ Unwrap(result).err.kind = "LibUsb"

\* The number of the DFU interface libusb reported to dfu_descriptors().
ReportedInterface == Unwrap(Unwrap(descriptors).iface)

\* The first functional descriptor among the extra descriptors reported.
ReportedFunctional ==
    SelectSeq(Unwrap(descriptors).extra, LAMBDA x : x.type = DFU_FUNCTIONAL_TYPE)[1]

\* C18: every DNLOAD request of leave_dfu_mode has value 0, no payload, and
\* the number of the DFU interface as its index.
C18_DnloadIndexIsInterface ==
    \A i \in Calls("DNLOAD") :
        /\ log[i].value = 0
        /\ log[i].len = 0
        /\ log[i].index = ReportedInterface

\* The calls leave_dfu_mode and enter_dfu_mode make, in order.
Transition == SelectSeq(log, LAMBDA e : e.call \in
    {"claim_interface", "DETACH", "DNLOAD", "GETSTATUS", "release_interface"})

\* C19: the calls of leave_dfu_mode are a prefix of claim_interface, DNLOAD,
\* GETSTATUS, release_interface, and a call is made only when every call
\* before it succeeded; the claim and the release name the DFU interface,
\* and GETSTATUS has value 0, the DFU interface as index and a buffer of 6
\* bytes.
C19_LeaveOrder ==
    (op \in {"request_detach", "detach_and_enumerate"}
        /\ Unwrap(old).mode = "FirmwareUpgrade") =>
        /\ Len(Transition) <= 4
        /\ \A i \in 1..Len(Transition) :
            /\ Transition[i].call =
                   << "claim_interface", "DNLOAD", "GETSTATUS", "release_interface" >>[i]
            /\ i < Len(Transition) => Transition[i].ok
            /\ Transition[i].call # "DNLOAD" => Transition[i].index = ReportedInterface
            /\ Transition[i].value = 0
            /\ Transition[i].len = (IF Transition[i].call = "GETSTATUS" THEN 6 ELSE 0)

\* leave_dfu_mode made its four calls on a probe whose DFU interface is
\* number 1.
C19_Witness ==
    /\ op = "request_detach"
    /\ Unwrap(old).mode = "FirmwareUpgrade"
    /\ Len(Transition) = 4
    /\ Transition[3].call = "GETSTATUS"
    /\ Transition[3].index = 1
    /\ Transition[4].ok

\* C20: enter_dfu_mode sends no DETACH unless claim_interface on the DFU
\* interface succeeded just before, and exactly one when it did; the DETACH
\* has the functional descriptor's wDetachTimeOut as value, the DFU
\* interface as index and no payload.
C20_DetachRequest ==
    (op \in {"request_detach", "detach_and_enumerate", "download"}
        /\ Unwrap(old).mode = "Runtime") =>
        /\ Cardinality(Calls("DETACH")) =
               Cardinality({j \in Calls("claim_interface") : log[j].ok})
        /\ Cardinality(Calls("DETACH")) <= 1
        /\ \A i \in Calls("DETACH") :
            /\ i > 1
            /\ log[i - 1] = Req("claim_interface", 0, ReportedInterface, 0, TRUE)
            /\ log[i].value = ReportedFunctional.wDetachTimeOut
            /\ log[i].index = ReportedInterface
            /\ log[i].len = 0

\* enter_dfu_mode sent DETACH to interface 1 with the timeout of a
\* functional descriptor that is not the first extra descriptor.
C20_Witness ==
    /\ op = "request_detach"
    /\ Unwrap(old).mode = "Runtime"
    /\ Calls("DETACH") # {}
    /\ Len(Unwrap(descriptors).extra) = 2
    /\ \A i \in Calls("DETACH") : log[i].value = 1000 /\ log[i].index = 1 /\ log[i].ok

C21_ReleaseNoDeviceIsOk ==
    (IsSome(released) /\ pc # "panicked") =>
        /\ Unwrap(released) \in {"ok", "NoDevice"} =>
            /\ op = "request_detach" => pc = "done" /\ result = Some(Ok(Unit))
            /\ op # "request_detach" => pc # "detach" /\ (pc = "done" => wait.polls > 0)
        /\ Unwrap(released) \notin {"ok", "NoDevice"} =>
            /\ pc = "done"
            /\ result = Some(Err([kind |-> "LibUsb", source |-> Some(Unwrap(released)),
                                  ctx |-> None]))

\* request_detach returned Ok although release_interface met NoDevice.
C21_Witness ==
    /\ op = "request_detach"
    /\ pc = "done"
    /\ released = Some("NoDevice")
    /\ result = Some(Ok(Unit))

\* C22: request_detach on a Runtime handle sends no DNLOAD and no GETSTATUS,
\* and sends DETACH once it holds the interface; on a FirmwareUpgrade handle
\* it sends no DETACH, and sends DNLOAD once it holds the interface.  It
\* leaves the handle as it was, whatever it returns.
C22_DispatchOnCachedMode ==
    op = "request_detach" =>
        /\ self = old
        /\ Unwrap(old).mode = "Runtime" =>
            /\ Calls("DNLOAD") \cup Calls("GETSTATUS") = {}
            /\ (\E i \in Calls("claim_interface") : log[i].ok) => Calls("DETACH") # {}
        /\ Unwrap(old).mode = "FirmwareUpgrade" =>
            /\ Calls("DETACH") = {}
            /\ (\E i \in Calls("claim_interface") : log[i].ok) => Calls("DNLOAD") # {}
            /\ (\E i \in Calls("DNLOAD") : log[i].ok) => Calls("GETSTATUS") # {}

\* request_detach succeeded on a Runtime handle, the probe is re-enumerating
\* and the handle still says Runtime.
C22_Witness ==
    /\ op = "request_detach"
    /\ pc = "done"
    /\ result = Some(Ok(Unit))
    /\ IsSome(reboot)
    /\ Calls("DETACH") # {}
    /\ Handle.mode = "Runtime"

\* The DFU interface libusb reported has no record with the functional
\* descriptor's type among its extra descriptors, or its first such record
\* is shorter than the functional descriptor.
NoUsableFunctional ==
    /\ IsSome(descriptors)
    /\ Unwrap(descriptors).config \in {"ok", "unconfigured"}
    /\ IsSome(Unwrap(descriptors).iface)
    /\ \A i \in 1..Len(Unwrap(descriptors).extra) :
           LET x == Unwrap(descriptors).extra[i]
           IN  (x.type = DFU_FUNCTIONAL_TYPE /\ x.len >= DFU_FUNCTIONAL_LENGTH) =>
                   \E j \in 1..(i - 1) :
                       Unwrap(descriptors).extra[j].type = DFU_FUNCTIONAL_TYPE

\* C26: when the DFU interface has no functional descriptor record, or the
\* record is shorter than 9 bytes, the mode transition returns
\* DeviceSeemsInvalid, claims no interface and sends no control request.
C26_NoFunctionalIsInvalid ==
    NoUsableFunctional =>
        /\ pc = "done"
        /\ IF Unwrap(result).ok THEN FALSE
           ELSE Unwrap(result).err.kind = "DeviceSeemsInvalid"
        /\ TransitionCalls = {}
        /\ claimed = {}

\* C27: detach_and_enumerate (alone or from download) leaves the handle's
\* device reference and cached mode as they were before the call until it
\* has succeeded: while it runs, when it unwinds and on every error it
\* returns; on success the handle is the one the waiter found.
C27_HandleReplacedOnlyOnSuccess ==
    /\ (op = "detach_and_enumerate" /\ pc = "done") =>
           IF Unwrap(result).ok
           THEN self = Some(wait.dev.val)
           ELSE /\ Handle.device = Unwrap(old).device
                /\ Handle.mode = Unwrap(old).mode
    /\ (op = "detach_and_enumerate" /\ pc # "done") =>
           /\ Handle.device = Unwrap(old).device
           /\ Handle.mode = Unwrap(old).mode
    /\ (op = "download" /\ pc = "done" /\ Calls("DfuLibusb::open") = {}) =>
           /\ Handle.device = Unwrap(old).device
           /\ Handle.mode = Unwrap(old).mode

\* detach_and_enumerate sent DETACH, the probe took it, and the wait failed
\* with TooManyDevices: the handle still says Runtime and still refers to
\* the device that has left the bus.
C27_Witness ==
    /\ op = "detach_and_enumerate"
    /\ pc = "done"
    /\ Unwrap(result) = Err(Error("TooManyDevices"))
    /\ \E i \in Calls("DETACH") : log[i].ok
    /\ Handle.mode = "Runtime"
    /\ ~OnBus(usb, Handle.device)

(***************************************************************************)
(* Properties of the identity table (SpecMode).                            *)
(***************************************************************************)
\* C15: mode_from_vid_pid gives a result for every pair of ids, decided by
\* the pair alone: (VID, PID_RUNTIME) gives Runtime, (VID, PID_DFU) gives
\* FirmwareUpgrade, VID with any other product id gives None, and any other
\* vendor id gives None whatever the product id.
C15_ModeTable ==
    (op = "mode_from_vid_pid" /\ pc = "done") =>
        /\ (usb[1].vid = VID /\ usb[1].pid = PID_RUNTIME) =>
               result = Some(Some("Runtime"))
        /\ (usb[1].vid = VID /\ usb[1].pid = PID_DFU) =>
               result = Some(Some("FirmwareUpgrade"))
        /\ (usb[1].vid = VID /\ usb[1].pid \notin {PID_RUNTIME, PID_DFU}) =>
               result = Some(None)
        /\ usb[1].vid # VID => result = Some(None)

\* mode_from_vid_pid gave None for the DFU product id under another vendor.
C15_Witness ==
    /\ op = "mode_from_vid_pid"
    /\ pc = "done"
    /\ usb[1].vid = VID + 1
    /\ usb[1].pid = PID_DFU
    /\ result = Some(None)


(***************************************************************************)
(* Properties of the serial cache (SpecSerial).                            *)
(***************************************************************************)
\* The string the handle's device reports now.
ReportedSerial == DeviceById(usb, Handle.device).serial

\* C25: the handle's serial cache is empty before the first call; a call
\* that fails leaves it empty; the first call that succeeds stores the
\* string it read from the device; from then on the cached value never
\* changes, whatever becomes of the device, and every call returns it
\* without any read on the device.
C25_SerialCachedOnce ==
    [][/\ now = 0 => Handle.serial = None
       /\ IsSome(Handle.serial) => self' = self
       /\ (now' # now /\ IsSome(Handle.serial)) =>
              /\ result' = Some(Ok(Unwrap(Handle.serial)))
              /\ log' = log
       /\ (now' # now /\ Handle.serial = None) =>
              IF Unwrap(result').ok
              THEN /\ Unwrap(result').val = ReportedSerial
                   /\ Unwrap(self') = [Handle EXCEPT !.serial = Some(ReportedSerial)]
                   /\ Len(log') = Len(log) + 2
              ELSE /\ self' = self
                   /\ Len(log') > Len(log)]_vars

\* The last call returned the cached serial, after a first call had failed
\* and a second had filled the cache, although the device has left the bus.
C25_Witness ==
    /\ op = "serial_number"
    /\ now = MaxCalls
    /\ usb = << >>
    /\ old = self
    /\ IsSome(Handle.serial)
    /\ result = Some(Ok(Unwrap(Handle.serial)))
    /\ Len(log) = 3

=============================================================================
